---- MODULE Spec2Model ----
(***************************************************************************)
(* A model of msp430-rt: the reset vector and its trampoline, the reset    *)
(* handler (zero .bss, initialise .data, call main, idle loop), the weak   *)
(* DEFAULT_HANDLER with its default_handler! override, and the built-in    *)
(* panic handler.                                                           *)
(*                                                                         *)
(* Memory is an array of 16-bit words (the linker symbols are `u16`        *)
(* statics, so r0 walks the sections one word at a time).  RAM and ROM     *)
(* (FLASH) are disjoint address ranges, as in the memory.x of the crate    *)
(* documentation.  The MSP430 core is modelled by its status register's    *)
(* GIE bit: it is clear after reset, cleared when an interrupt is          *)
(* accepted and restored by the return from the interrupt.                 *)
(***************************************************************************)
EXTENDS Integers, Sequences, FiniteSets, TLC

\* ------------------------------------------------------------------ bounds
RamWords == 2        \* words of RAM
RomWords == 2        \* words of ROM holding initial values of .data
MaxVal == 1          \* a word holds 0..MaxVal
NumInterrupts == 2   \* interrupt slots of the vector table (besides reset)
MaxNest == 1         \* interrupt frames that may be stacked

RAM == 0 .. (RamWords - 1)
ROM == RamWords .. (RamWords + RomWords - 1)
Addr == RAM \cup ROM
Word == 0 .. MaxVal
Slots == 1 .. NumInterrupts

VARIABLES
    sym,             \* linker symbols: _sbss, _ebss, _sdata, _edata, _sidata
    mem,             \* memory, word addressed
    mem0,            \* history: memory at reset
    memCopy,         \* history: memory when init_data was called
    INTERRUPTS,      \* the application's .vector_table.interrupts content
    vectors,         \* the linked vector table
    strong,          \* the application used default_handler!(f)
    abort_on_panic,  \* cargo feature "abort-on-panic"
    pc,              \* main thread: where control is
    ip,              \* main thread: statement of reset_handler being executed
    phase,           \* "call" before the statement's call, "run" inside it
    cur,             \* r0's loop pointers while a pass runs
    sp,              \* stack pointer register r1
    gie,             \* status register, GIE bit
    isr,             \* stacked interrupt frames, innermost last; a frame
                     \* records its handler, where control is in it, the
                     \* saved GIE, its slot and the calls of f it made
    count,           \* history: calls started, per callee
    done,            \* history: calls returned, per callee
    args             \* history: arguments main was called with

vars == << sym, mem, mem0, memCopy, INTERRUPTS, vectors, strong,
           abort_on_panic, pc, ip, phase, cur, sp, gie, isr, count, done,
           args >>

\* ------------------------------------------------------------ link time

\* All section layouts reset_handler can be handed: .bss and .data lie in
\* RAM (and may overlap), the initial values of .data lie in ROM.
Layouts ==
    { s \in [sbss : 0 .. RamWords, ebss : 0 .. RamWords,
             sdata : 0 .. RamWords, edata : 0 .. RamWords,
             sidata : RamWords .. (RamWords + RomWords)] :
        /\ s.sbss <= s.ebss
        /\ s.sdata <= s.edata
        /\ s.sidata + (s.edata - s.sdata) <= RamWords + RomWords }

\* The layouts a linker script produces: .data at the origin of RAM, .bss
\* right after it, the initial values at the origin of ROM.
LinkedLayouts ==
    { s \in Layouts : s.sdata = 0 /\ s.sbss = s.edata /\ s.sidata = RamWords }

RESET_VECTOR_Direct == "reset_handler"

\* static RESET_VECTOR = trampoline
RESET_VECTOR == "trampoline"

\* The vector table: the reset slot holds RESET_VECTOR, an interrupt slot
\* holds what the application put there, and a slot it left unpopulated
\* refers to the DEFAULT_HANDLER symbol.
VectorTable(app) ==
    [k \in 0 .. NumInterrupts |->
        IF k = 0 THEN RESET_VECTOR
        ELSE IF app[k] = "unpopulated" THEN "DEFAULT_HANDLER"
        ELSE app[k]]

ResolveWeakOnly(s) ==
    IF s = "DEFAULT_HANDLER" THEN "weak" ELSE s

\* #[linkage = "weak"] DEFAULT_HANDLER: a strong definition of the name
\* (default_handler!) replaces the weak one for every reference.
Resolve(s) ==
    IF s = "DEFAULT_HANDLER"
    THEN IF strong THEN "override" ELSE "weak"
    ELSE s

\* ------------------------------------------------------------- the code

reset_handlerCopyFirst == << "init_data", "zero_bss", "main", "loop" >>

reset_handlerMainEarly == << "zero_bss", "main", "init_data", "loop" >>

reset_handlerMainAgain == << "zero_bss", "init_data", "main", "main", "loop" >>

\* The statements of reset_handler, in program order.
reset_handler == << "zero_bss", "init_data", "main", "loop" >>

NoCur == [dst |-> 0, src |-> 0]

Callees == {"zero_bss", "init_data", "main", "user_main"}

InitCommon ==
    /\ mem0 = mem
    /\ memCopy = mem
    /\ vectors = VectorTable(INTERRUPTS)
    /\ pc = "reset"
    /\ ip = 0
    /\ phase = "call"
    /\ cur = NoCur
    /\ sp = "unset"
    /\ gie = FALSE
    /\ isr = << >>
    /\ count = [c \in Callees |-> 0]
    /\ done = [c \in Callees |-> 0]
    /\ args = "none"

\* Power-on images used where the contents of memory are not the subject:
\* RAM holds one junk value, ROM another.
BootImages ==
    { [a \in Addr |-> IF a \in RAM THEN v ELSE w] : v \in Word, w \in Word }

Init ==
    /\ sym \in LinkedLayouts
    /\ mem \in BootImages
    /\ INTERRUPTS \in [Slots -> {"app_handler", "unpopulated"}]
    /\ strong \in BOOLEAN
    /\ abort_on_panic \in BOOLEAN
    /\ InitCommon

InitMem ==
    /\ sym \in Layouts
    /\ mem \in [Addr -> Word]
    /\ INTERRUPTS = [k \in Slots |-> "unpopulated"]
    /\ strong = FALSE
    /\ abort_on_panic = TRUE
    /\ InitCommon

\* The main thread runs when no interrupt frame is stacked.
MainRuns == isr = << >>

Advance ==
    /\ ip' = ip + 1
    /\ pc' = reset_handler[ip + 1]
    /\ phase' = "call"

\* Hardware: after reset the CPU loads the program counter from the reset
\* slot of the vector table.
ResetDispatch ==
    /\ pc = "reset"
    /\ pc' = vectors[0]
    /\ UNCHANGED << sym, mem, mem0, memCopy, INTERRUPTS, vectors, strong,
                    abort_on_panic, ip, phase, cur, sp, gie, isr, count,
                    done, args >>

trampolineSetsStatus ==
    /\ pc = "trampoline"
    /\ gie' = TRUE
    /\ pc' = "reset_handler"
    /\ UNCHANGED << sym, mem, mem0, memCopy, INTERRUPTS, vectors, strong,
                    abort_on_panic, ip, phase, cur, sp, isr, count, done,
                    args >>

trampolineNoStack ==
    /\ pc = "trampoline"
    /\ pc' = "reset_handler"
    /\ UNCHANGED << sym, mem, mem0, memCopy, INTERRUPTS, vectors, strong,
                    abort_on_panic, ip, phase, cur, sp, gie, isr, count,
                    done, args >>

\* mov #_stack_start, r1 ; br reset_handler
trampoline ==
    /\ pc = "trampoline"
    /\ sp' = "_stack_start"
    /\ pc' = "reset_handler"
    /\ UNCHANGED << sym, mem, mem0, memCopy, INTERRUPTS, vectors, strong,
                    abort_on_panic, ip, phase, cur, gie, isr, count, done,
                    args >>

\* Entry of reset_handler: control is at its first statement.
ResetHandlerEntry ==
    /\ pc = "reset_handler"
    /\ MainRuns
    /\ ip' = 1
    /\ pc' = reset_handler[1]
    /\ phase' = "call"
    /\ UNCHANGED << sym, mem, mem0, memCopy, INTERRUPTS, vectors, strong,
                    abort_on_panic, cur, sp, gie, isr, count, done, args >>

\* r0::zero_bss(&mut _sbss, &mut _ebss): the call
ZeroBssCall ==
    /\ pc = "zero_bss" /\ phase = "call" /\ MainRuns
    /\ phase' = "run"
    /\ cur' = [dst |-> sym.sbss, src |-> 0]
    /\ count' = [count EXCEPT !["zero_bss"] = @ + 1]
    /\ UNCHANGED << sym, mem, mem0, memCopy, INTERRUPTS, vectors, strong,
                    abort_on_panic, pc, ip, sp, gie, isr, done, args >>

ZeroMoreOneTooMany(c) == c.dst <= sym.ebss

ZeroMoreStopsEarly(c) == c.dst + 1 < sym.ebss

\* r0::zero_bss loop condition: while sbss < ebss
ZeroMore(c) == c.dst < sym.ebss

\* while sbss < ebss { write_volatile(sbss, 0); sbss = sbss.offset(1) }
ZeroBssStep ==
    /\ pc = "zero_bss" /\ phase = "run" /\ MainRuns
    /\ ZeroMore(cur)
    /\ mem' = [mem EXCEPT ![cur.dst] = 0]
    /\ cur' = [cur EXCEPT !.dst = @ + 1]
    /\ UNCHANGED << sym, mem0, memCopy, INTERRUPTS, vectors, strong,
                    abort_on_panic, pc, ip, phase, sp, gie, isr, count, done,
                    args >>

ZeroBssReturn ==
    /\ pc = "zero_bss" /\ phase = "run" /\ MainRuns
    /\ ~ZeroMore(cur)
    /\ cur' = NoCur
    /\ done' = [done EXCEPT !["zero_bss"] = @ + 1]
    /\ Advance
    /\ UNCHANGED << sym, mem, mem0, memCopy, INTERRUPTS, vectors, strong,
                    abort_on_panic, sp, gie, isr, count, args >>

\* r0::init_data(&mut _sdata, &mut _edata, &_sidata): the call
InitDataCall ==
    /\ pc = "init_data" /\ phase = "call" /\ MainRuns
    /\ phase' = "run"
    /\ cur' = [dst |-> sym.sdata, src |-> sym.sidata]
    /\ memCopy' = mem
    /\ count' = [count EXCEPT !["init_data"] = @ + 1]
    /\ UNCHANGED << sym, mem, mem0, INTERRUPTS, vectors, strong,
                    abort_on_panic, pc, ip, sp, gie, isr, done, args >>

CopyNextKeepsSource(c) == [dst |-> c.dst + 1, src |-> c.src]

\* r0::init_data loop increment: sdata = sdata.offset(1); sidata = sidata.offset(1)
CopyNext(c) == [dst |-> c.dst + 1, src |-> c.src + 1]

\* while sdata < edata { write(sdata, read(sidata)); sdata++; sidata++ }
InitDataStep ==
    /\ pc = "init_data" /\ phase = "run" /\ MainRuns
    /\ cur.dst < sym.edata
    /\ mem' = [mem EXCEPT ![cur.dst] = mem[cur.src]]
    /\ cur' = CopyNext(cur)
    /\ UNCHANGED << sym, mem0, memCopy, INTERRUPTS, vectors, strong,
                    abort_on_panic, pc, ip, phase, sp, gie, isr, count, done,
                    args >>

InitDataReturn ==
    /\ pc = "init_data" /\ phase = "run" /\ MainRuns
    /\ ~(cur.dst < sym.edata)
    /\ cur' = NoCur
    /\ done' = [done EXCEPT !["init_data"] = @ + 1]
    /\ Advance
    /\ UNCHANGED << sym, mem, mem0, memCopy, INTERRUPTS, vectors, strong,
                    abort_on_panic, sp, gie, isr, count, args >>

\* main(0, core::ptr::null()): the `main` symbol rustc generates, which
\* hands the application's main and both arguments to the start lang item.
MainCall ==
    /\ pc = "main" /\ phase = "call" /\ MainRuns
    /\ phase' = "start"
    /\ args' = [argc |-> 0, argv |-> "null", ret |-> "none"]
    /\ count' = [count EXCEPT !["main"] = @ + 1]
    /\ UNCHANGED << sym, mem, mem0, memCopy, INTERRUPTS, vectors, strong,
                    abort_on_panic, pc, ip, cur, sp, gie, isr, done >>

startSkipsMain ==
    /\ pc = "main" /\ phase = "start" /\ MainRuns
    /\ phase' = "run"
    /\ UNCHANGED << sym, mem, mem0, memCopy, INTERRUPTS, vectors, strong,
                    abort_on_panic, pc, ip, cur, sp, gie, isr, count, done,
                    args >>

\* fn start(main, _argc, _argv): main(); -- the call of the application's
\* main, which reads neither argument
start ==
    /\ pc = "main" /\ phase = "start" /\ MainRuns
    /\ phase' = "run"
    /\ count' = [count EXCEPT !["user_main"] = @ + 1]
    /\ UNCHANGED << sym, mem, mem0, memCopy, INTERRUPTS, vectors, strong,
                    abort_on_panic, pc, ip, cur, sp, gie, isr, done, args >>

\* fn start: the value it returns after main(), `0`
start_result == 0

MainReturnDisables ==
    /\ pc = "main" /\ phase = "run" /\ MainRuns
    /\ done' = [done EXCEPT !["main"] = @ + 1, !["user_main"] = @ + 1]
    /\ args' = [args EXCEPT !.ret = 0]
    /\ gie' = FALSE
    /\ Advance
    /\ UNCHANGED << sym, mem, mem0, memCopy, INTERRUPTS, vectors, strong,
                    abort_on_panic, cur, sp, isr, count >>

\* The application's main returns, start returns 0 and `main` returns it to
\* reset_handler, which goes on with its next statement.
MainReturn ==
    /\ pc = "main" /\ phase = "run" /\ MainRuns
    /\ done' = [done EXCEPT !["main"] = @ + 1, !["user_main"] = @ + 1]
    /\ args' = [args EXCEPT !.ret = start_result]
    /\ Advance
    /\ UNCHANGED << sym, mem, mem0, memCopy, INTERRUPTS, vectors, strong,
                    abort_on_panic, cur, sp, gie, isr, count >>

\* ----------------------------------------------- application and interrupts

Top == isr[Len(isr)]

SetTop(f) == [isr EXCEPT ![Len(isr)] = f]

\* Application code has control: main, an application interrupt handler, or
\* the function handed to default_handler!.
AppCode ==
    IF isr = << >> THEN pc = "main" /\ phase = "run" ELSE Top.at = "run"

\* Where a panic takes control: the built-in handler when the feature
\* abort-on-panic is on, else the embedder's rust_begin_unwind.
PanicTarget == IF abort_on_panic THEN "panic" ELSE "user_panic"

\* Control moves to location l in the running context.
Goto(l) ==
    IF isr = << >>
    THEN pc' = l /\ isr' = isr
    ELSE pc' = pc /\ isr' = SetTop([Top EXCEPT !.at = l])

At(l) == IF isr = << >> THEN pc = l ELSE Top.at = l

\* The application enables interrupts (msp430::interrupt::enable).
AppEnable ==
    /\ AppCode
    /\ ~gie
    /\ gie' = TRUE
    /\ UNCHANGED << sym, mem, mem0, memCopy, INTERRUPTS, vectors, strong,
                    abort_on_panic, pc, ip, phase, cur, sp, isr, count, done,
                    args >>

\* The application disables interrupts (msp430::interrupt::disable).
AppDisable ==
    /\ AppCode
    /\ gie
    /\ gie' = FALSE
    /\ UNCHANGED << sym, mem, mem0, memCopy, INTERRUPTS, vectors, strong,
                    abort_on_panic, pc, ip, phase, cur, sp, isr, count, done,
                    args >>

\* Application code panics: control enters the panic handler.
AppPanic ==
    /\ AppCode
    /\ Goto(PanicTarget)
    /\ UNCHANGED << sym, mem, mem0, memCopy, INTERRUPTS, vectors, strong,
                    abort_on_panic, ip, phase, cur, sp, gie, count, done,
                    args >>

panicKeepsInterrupts ==
    /\ At("panic")
    /\ gie' = gie
    /\ Goto("halted")
    /\ UNCHANGED << sym, mem, mem0, memCopy, INTERRUPTS, vectors, strong,
                    abort_on_panic, ip, phase, cur, sp, count, done, args >>

\* fn panic: interrupt::disable(); loop { barrier() }
panic ==
    /\ At("panic")
    /\ gie' = FALSE
    /\ Goto("halted")
    /\ UNCHANGED << sym, mem, mem0, memCopy, INTERRUPTS, vectors, strong,
                    abort_on_panic, ip, phase, cur, sp, count, done, args >>

\* Where a handler starts: the application's handlers are application code.
EntryOf(h) == IF h = "app_handler" THEN "run" ELSE "entry"

\* Hardware: with GIE set, a pending interrupt of slot k is accepted: the
\* status register is saved and cleared, and the slot's handler runs.
Interrupt(k) ==
    /\ gie
    /\ Len(isr) < MaxNest
    /\ isr' = Append(isr, [h |-> Resolve(vectors[k]),
                           at |-> EntryOf(Resolve(vectors[k])),
                           sr |-> gie, vec |-> k, calls |-> 0])
    /\ gie' = FALSE
    /\ UNCHANGED << sym, mem, mem0, memCopy, INTERRUPTS, vectors, strong,
                    abort_on_panic, pc, ip, phase, cur, sp, count, done,
                    args >>

DEFAULT_HANDLER_Panics ==
    /\ isr # << >>
    /\ Top.h = "weak" /\ Top.at = "entry"
    /\ gie' = FALSE
    /\ isr' = SetTop([Top EXCEPT !.at = PanicTarget])
    /\ UNCHANGED << sym, mem, mem0, memCopy, INTERRUPTS, vectors, strong,
                    abort_on_panic, pc, ip, phase, cur, sp, count, done,
                    args >>

DEFAULT_HANDLER_Returns ==
    /\ isr # << >>
    /\ Top.h = "weak" /\ Top.at = "entry"
    /\ gie' = Top.sr
    /\ isr' = SubSeq(isr, 1, Len(isr) - 1)
    /\ UNCHANGED << sym, mem, mem0, memCopy, INTERRUPTS, vectors, strong,
                    abort_on_panic, pc, ip, phase, cur, sp, count, done,
                    args >>

\* The weak DEFAULT_HANDLER: interrupt::disable(); loop {}
DEFAULT_HANDLER ==
    /\ isr # << >>
    /\ Top.h = "weak" /\ Top.at = "entry"
    /\ gie' = FALSE
    /\ isr' = SetTop([Top EXCEPT !.at = "loop"])
    /\ UNCHANGED << sym, mem, mem0, memCopy, INTERRUPTS, vectors, strong,
                    abort_on_panic, pc, ip, phase, cur, sp, count, done,
                    args >>

\* The DEFAULT_HANDLER of default_handler!(f): let f: fn() = $body; f();
DefaultHandlerOverride ==
    /\ isr # << >>
    /\ Top.h = "override" /\ Top.at = "entry"
    /\ isr' = SetTop([Top EXCEPT !.at = "run", !.calls = @ + 1])
    /\ UNCHANGED << sym, mem, mem0, memCopy, INTERRUPTS, vectors, strong,
                    abort_on_panic, pc, ip, phase, cur, sp, gie, count, done,
                    args >>

\* An application handler, an extern "msp430-interrupt" fn, returns with
\* reti: the saved status register is restored and the interrupted code
\* resumes.
HandlerReturn ==
    /\ isr # << >>
    /\ Top.h = "app_handler" /\ Top.at = "run"
    /\ gie' = Top.sr
    /\ isr' = SubSeq(isr, 1, Len(isr) - 1)
    /\ UNCHANGED << sym, mem, mem0, memCopy, INTERRUPTS, vectors, strong,
                    abort_on_panic, pc, ip, phase, cur, sp, count, done,
                    args >>

\* f returns and with it the DEFAULT_HANDLER of default_handler!, an
\* extern "C" fn, which returns with ret.  Entered through an entry of the
\* interrupt ABI that ends in reti, the interrupted code resumes.  Entered
\* from the vector itself, ret takes the saved status register for the
\* return address: control is lost to whatever lies there ("wild"), the
\* status register is not restored and the interrupted code never
\* resumes.
DefaultHandlerOverrideReturn ==
    /\ isr # << >>
    /\ Top.h = "override" /\ Top.at = "run"
    /\ \/ /\ gie' = Top.sr
          /\ isr' = SubSeq(isr, 1, Len(isr) - 1)
       \/ /\ gie' = gie
          /\ isr' = SetTop([Top EXCEPT !.at = "wild"])
    /\ UNCHANGED << sym, mem, mem0, memCopy, INTERRUPTS, vectors, strong,
                    abort_on_panic, pc, ip, phase, cur, sp, count, done,
                    args >>

\* ORIGIN of RAM in the memory.x of the crate documentation (0x0200)
RamOrigin == 512

\* The word index of a byte address in RAM (words are u16).
WordIndex(b) == (b - RamOrigin) \div 2

\* The section bounds of the documented example: .bss at [0x0200, 0x0204),
\* .data at [0x0204, 0x0208), its initial values right after RAM's four
\* words.
ScenarioLayout ==
    [sbss |-> WordIndex(512), ebss |-> WordIndex(516),
     sdata |-> WordIndex(516), edata |-> WordIndex(520),
     sidata |-> WordIndex(520)]

\* A little-endian u16 made of two bytes.
WordOf(lo, hi) == lo + 256 * hi

\* The example image: four RAM words of junk, ROM bytes AA BB CC DD.
InitScenario ==
    /\ sym = ScenarioLayout
    /\ \E junk \in [0 .. 3 -> {0, 65535}] :
           mem = [a \in 0 .. 5 |->
                     IF a < 4 THEN junk[a]
                     ELSE IF a = 4 THEN WordOf(170, 187)
                     ELSE WordOf(204, 221)]
    /\ INTERRUPTS = [k \in Slots |-> "unpopulated"]
    /\ strong = FALSE
    /\ abort_on_panic = TRUE
    /\ InitCommon

NextMem ==
    \/ ResetDispatch
    \/ trampoline
    \/ ResetHandlerEntry
    \/ ZeroBssCall
    \/ ZeroBssStep
    \/ ZeroBssReturn
    \/ InitDataCall
    \/ InitDataStep
    \/ InitDataReturn
    \/ MainCall

SpecMem == InitMem /\ [][NextMem]_vars

SpecFrame == (InitMem \/ InitScenario) /\ [][NextMem]_vars

Next ==
    \/ NextMem
    \/ start
    \/ MainReturn
    \/ AppEnable
    \/ AppDisable
    \/ AppPanic
    \/ panic
    \/ \E k \in Slots : Interrupt(k)
    \/ DEFAULT_HANDLER
    \/ DefaultHandlerOverride
    \/ HandlerReturn
    \/ DefaultHandlerOverrideReturn

Spec == Init /\ [][Next]_vars

\* ------------------------------------------------------------- properties

InRange(a, lo, hi) == lo <= a /\ a < hi

Bss == { a \in DOMAIN mem : InRange(a, sym.sbss, sym.ebss) }

Data == { a \in DOMAIN mem : InRange(a, sym.sdata, sym.edata) }

\* Both passes of the memory initialisation have returned.
MemInitDone == done["zero_bss"] = 1 /\ done["init_data"] = 1

\* C1 as stated: once memory initialisation is complete, every word of
\* [_sbss, _ebss) is 0, whatever the section bounds.
C1_BssAllZero ==
    MemInitDone => \A a \in Bss : mem[a] = 0

\* C1, amended: once memory initialisation is complete, every word of
\* [_sbss, _ebss) that does not also lie in [_sdata, _edata) is 0; and when
\* the zero pass returns, before the copy starts, every word of
\* [_sbss, _ebss) is 0.
C1_BssZeroOutsideData ==
    /\ MemInitDone => \A a \in Bss \ Data : mem[a] = 0
    /\ (done["zero_bss"] = 1 /\ count["init_data"] = 0)
           => \A a \in Bss : mem[a] = 0

C1_Witness ==
    /\ MemInitDone
    /\ \E a \in Bss \ Data : mem0[a] # 0
    /\ \E a \in Bss \cap Data : mem[a] # 0

\* C2: once memory initialisation is complete, word i of [_sdata, _edata)
\* holds what word i from _sidata held when the copy started.
C2_DataCopied ==
    MemInitDone =>
        \A i \in 0 .. (sym.edata - sym.sdata - 1) :
            mem[sym.sdata + i] = memCopy[sym.sidata + i]

C2_Witness ==
    /\ MemInitDone
    /\ sym.edata - sym.sdata >= 2
    /\ mem0[sym.sidata] # mem0[sym.sidata + 1]
    /\ mem0[sym.sdata] # mem0[sym.sidata]

\* C3: the copy starts only after the zero pass has returned, so a word
\* that lies in both [_sbss, _ebss) and [_sdata, _edata) ends up holding
\* its initial value from ROM, not the 0 of the zero pass.
C3_ZeroThenCopy ==
    /\ count["init_data"] >= 1 => done["zero_bss"] = 1
    /\ MemInitDone =>
           \A a \in Bss \cap Data :
               mem[a] = mem0[sym.sidata + (a - sym.sdata)]

C3_Witness ==
    /\ MemInitDone
    /\ \E a \in Bss \cap Data : mem[a] # 0 /\ mem0[a] # mem[a]

\* C4: each pass is called at most once, and whenever main has been called
\* each pass has been called exactly once and has returned.
C4_InitBeforeMain ==
    /\ \A c \in {"zero_bss", "init_data"} : count[c] <= 1 /\ done[c] <= count[c]
    /\ (count["main"] >= 1 \/ pc = "loop") =>
           \A c \in {"zero_bss", "init_data"} : count[c] = 1 /\ done[c] = 1
    /\ (pc \in {"zero_bss", "init_data"} /\ phase = "run") => count["main"] = 0

C4_Witness ==
    /\ pc = "main" /\ phase = "run"
    /\ sym.sbss < sym.ebss /\ sym.sdata < sym.edata
    /\ isr # << >>

\* C5: as long as the stack pointer is unset, control is at the reset vector
\* or in the trampoline: reset_handler has not been entered, nothing has
\* been called and no interrupt frame exists.
C5_StackFirst ==
    sp = "unset" =>
        /\ pc \in {"reset", "trampoline"}
        /\ ip = 0
        /\ isr = << >>
        /\ \A c \in Callees : count[c] = 0

C5_Witness ==
    /\ pc = "zero_bss" /\ phase = "run"
    /\ sp = "_stack_start"

\* C6: once main has returned, the main thread is in the final loop of
\* reset_handler in every later state, and main is never called again.
C6_IdleForever ==
    done["main"] >= 1 => pc = "loop" /\ count["main"] = 1 /\ done["main"] = 1

C6_Witness ==
    /\ done["main"] = 1
    /\ isr # << >>

\* C7: with the built-in panic handler, once it has disabled interrupts
\* GIE is clear and nothing changes any more: no interrupt is accepted,
\* the handler does not return and control stays in its loop.
C7_HaltedForever ==
    /\ [](abort_on_panic => ~At("user_panic"))
    /\ [](At("halted") => ~gie)
    /\ [][At("halted") => (pc' = pc /\ isr' = isr /\ gie' = FALSE)]_vars

C7_Witness ==
    /\ abort_on_panic
    /\ At("halted")
    /\ isr # << >>
    /\ Top.sr

\* C8: without a strong DEFAULT_HANDLER, an interrupt of a slot that refers
\* to DEFAULT_HANDLER runs the weak handler; while the weak handler is the
\* innermost frame GIE is clear, the frame is never popped, no frame is
\* pushed and the interrupted code does not move.
C8_DefaultHandlerFailStop ==
    /\ [](~strong =>
            \A i \in 1 .. Len(isr) :
                vectors[isr[i].vec] = "DEFAULT_HANDLER" => isr[i].h = "weak")
    /\ []((isr # << >> /\ Top.h = "weak") => ~gie)
    /\ [][(isr # << >> /\ Top.h = "weak") =>
            /\ Len(isr') = Len(isr)
            /\ isr'[Len(isr')].h = "weak"
            /\ pc' = pc
            /\ gie' = FALSE]_vars

C8_Witness ==
    /\ ~strong
    /\ isr # << >>
    /\ Top.h = "weak" /\ Top.at = "loop"
    /\ INTERRUPTS[Top.vec] = "unpopulated"

\* C9: with a strong DEFAULT_HANDLER linked, no frame ever runs the weak
\* handler, and an interrupt of a slot that refers to DEFAULT_HANDLER runs
\* the override.
C9_OverrideWins ==
    strong =>
        \A i \in 1 .. Len(isr) :
            /\ isr[i].h # "weak"
            /\ vectors[isr[i].vec] = "DEFAULT_HANDLER" => isr[i].h = "override"

C9_Witness ==
    /\ strong
    /\ isr # << >>
    /\ Top.h = "override" /\ Top.at = "run"
    /\ INTERRUPTS[Top.vec] = "unpopulated"

C11_BothLoopsMasked ==
    /\ (done["main"] >= 1 /\ isr = << >>) => (pc = "loop" /\ ~gie)
    /\ At("halted") => ~gie

\* C11, amended: a handled panic ends in the handler's loop with GIE
\* clear; the return of main ends in the loop of reset_handler with GIE as
\* the application left it, so with GIE set if the application had set it.
C11_LoopsAndInterrupts ==
    /\ [](At("halted") => ~gie)
    /\ [][(pc = "main" /\ pc' # "main" /\ isr = << >> /\ isr' = << >>
             /\ done'["main"] > done["main"])
            => (pc' = "loop" /\ gie' = gie)]_vars

C11_Witness ==
    /\ pc = "loop" /\ isr = << >> /\ gie
    /\ done["main"] = 1

\* A step in which the handler of the innermost frame returns: its frame is
\* popped, or control has left it for the address its return took.
TopHandlerReturns ==
    /\ isr # << >>
    /\ Top.at = "run"
    /\ \/ Len(isr') < Len(isr)
       \/ /\ Len(isr') = Len(isr)
          /\ isr'[Len(isr')].at = "wild"

\* C12 as stated: an interrupt raised in the final loop of reset_handler
\* with GIE set is dispatched to the handler its vector holds, and when
\* that handler returns, control is back in the loop: the frame is popped,
\* the saved status register is restored and the main thread is in the
\* loop.
C12_HandlerReturnsToIdle ==
    /\ []((pc = "loop" /\ isr = << >> /\ gie)
            => \A k \in Slots : ENABLED Interrupt(k))
    /\ [][(pc = "loop" /\ TopHandlerReturns) =>
            /\ pc' = "loop"
            /\ isr' = SubSeq(isr, 1, Len(isr) - 1)
            /\ gie' = Top.sr]_vars

\* C12: in the final loop of reset_handler with GIE set, an interrupt of
\* any slot can be accepted; it runs the handler installed in its slot
\* while the main thread stays in the loop; when the handler returns, its
\* frame is popped, the saved GIE is restored and the main thread is still
\* in the loop.  The return of main does not clear a GIE the application
\* had set.
C12_IdleResponsive ==
    /\ []((pc = "loop" /\ isr = << >> /\ gie)
            => \A k \in Slots : ENABLED Interrupt(k))
    /\ [][(pc = "loop" /\ Len(isr') = Len(isr) + 1) =>
            /\ pc' = "loop"
            /\ gie
            /\ INTERRUPTS[isr'[Len(isr')].vec] = "app_handler"
                   => isr'[Len(isr')].h = "app_handler"]_vars
    /\ [][(pc = "loop" /\ Len(isr') < Len(isr)) =>
            /\ pc' = "loop"
            /\ isr' = SubSeq(isr, 1, Len(isr) - 1)
            /\ gie' = Top.sr]_vars
    /\ [][(pc = "main" /\ isr = << >> /\ gie /\ pc' = "loop") => gie']_vars

C12_Witness ==
    /\ pc = "loop"
    /\ isr # << >>
    /\ Top.h = "app_handler" /\ Top.at = "run" /\ Top.sr

\* Locations inside a panic handler.
PanicLocs == {"panic", "halted", "user_panic"}

\* Some context, running or interrupted, is inside a panic handler.
InPanic ==
    \/ pc \in PanicLocs
    \/ \E i \in 1 .. Len(isr) : isr[i].at \in PanicLocs

\* The boot state: progress of the main thread through the trampoline and
\* reset_handler, or Halted once any context has entered a panic handler.
BootState ==
    IF InPanic THEN "Halted"
    ELSE IF pc \in {"reset", "trampoline"} THEN "Reset"
    ELSE IF pc \in {"reset_handler", "zero_bss", "init_data"} THEN "MemoryInit"
    ELSE IF pc = "main" THEN "Running"
    ELSE "Idle"

\* C13 as stated: the boot state changes only by Reset -> MemoryInit,
\* MemoryInit -> Running, Running -> Idle and Running -> Halted.
C13_TransitionsAsStated ==
    [][BootState' # BootState =>
         << BootState, BootState' >> \in
             { << "Reset", "MemoryInit" >>, << "MemoryInit", "Running" >>,
               << "Running", "Idle" >>, << "Running", "Halted" >> }]_vars

\* C13, amended: the boot state changes only by Reset -> MemoryInit,
\* MemoryInit -> Running, Running -> Idle, Running -> Halted and
\* Idle -> Halted (a panic in an interrupt handler that runs during Idle);
\* these transitions form no cycle, so no state is re-entered.
C13_Monotonic ==
    [][BootState' # BootState =>
         << BootState, BootState' >> \in
             { << "Reset", "MemoryInit" >>, << "MemoryInit", "Running" >>,
               << "Running", "Idle" >>, << "Running", "Halted" >>,
               << "Idle", "Halted" >> }]_vars

C13_Witness ==
    /\ BootState = "Halted"
    /\ pc = "loop"
    /\ isr # << >>

\* C14: while the boot state is Reset or MemoryInit, GIE is clear as the
\* reset left it, no interrupt frame exists, and every change of memory is
\* a step of the main thread.
C14_NoInterruptsBeforeMain ==
    /\ [](BootState \in {"Reset", "MemoryInit"} => (~gie /\ isr = << >>))
    /\ [][(BootState \in {"Reset", "MemoryInit"})
            => (gie' = FALSE /\ isr' = << >>)]_vars
    /\ [][(mem' # mem)
            => (isr = << >> /\ isr' = << >> /\ BootState = "MemoryInit")]_vars

C14_Witness ==
    /\ pc = "init_data" /\ phase = "run"
    /\ cur.dst > sym.sdata
    /\ mem # mem0
    /\ \E k \in Slots : INTERRUPTS[k] = "app_handler"

\* The contexts (0: the main thread, i: interrupt frame i) that are inside
\* a panic handler.
PanicContexts ==
    { i \in 0 .. Len(isr) :
        IF i = 0 THEN pc \in PanicLocs ELSE isr[i].at \in PanicLocs }

\* C15: a context enters a panic handler only by a step of application
\* code that panics; the main thread is never in a panic handler after main
\* has returned, and a frame of the weak DEFAULT_HANDLER never is.
C15_HaltedOnlyByPanic ==
    /\ [][(Cardinality(PanicContexts') > Cardinality(PanicContexts))
            => (AppCode /\ Len(isr') = Len(isr) /\ done' = done)]_vars
    /\ [](pc \in PanicLocs => done["main"] = 0)
    /\ [](\A i \in 1 .. Len(isr) :
             isr[i].h = "weak" => isr[i].at \notin PanicLocs)

C15_Witness ==
    /\ isr # << >>
    /\ Top.h = "weak" /\ Top.at = "loop"
    /\ pc = "loop"
    /\ PanicContexts = {}

\* C16: reset_handler calls main at most once, with argc 0 and a null
\* argv; start calls the application's main exactly once per call of main,
\* and when main has returned its result is 0.
C16_MainOnce ==
    /\ count["main"] <= 1
    /\ count["user_main"] <= count["main"]
    /\ count["main"] = 0 => args = "none"
    /\ count["main"] = 1 => (args.argc = 0 /\ args.argv = "null")
    /\ (pc = "main" /\ phase = "run") => count["user_main"] = 1
    /\ done["main"] >= 1 =>
           /\ count["main"] = 1 /\ done["main"] = 1
           /\ count["user_main"] = 1 /\ done["user_main"] = 1
           /\ args.ret = 0

C16_Witness ==
    /\ done["main"] = 1
    /\ count["user_main"] = 1
    /\ args = [argc |-> 0, argv |-> "null", ret |-> 0]

\* The bytes of words lo .. hi-1 of memory m, in address order.
Dump(m, lo, hi) ==
    [i \in 1 .. 2 * (hi - lo) |->
        IF i % 2 = 1 THEN m[lo + (i - 1) \div 2] % 256
        ELSE m[lo + (i - 1) \div 2] \div 256]

\* C17: a word outside [_sbss, _ebss) and [_sdata, _edata) always holds
\* its value from before boot; a pass over an empty range writes nothing;
\* with disjoint ranges every word of .bss is 0 after the copy; and the
\* documented example ends with the bytes 00 00 00 00 AA BB CC DD.
C17_Frame ==
    /\ \A a \in DOMAIN mem \ (Bss \cup Data) : mem[a] = mem0[a]
    /\ (sym.sbss = sym.ebss /\ count["init_data"] = 0) => mem = mem0
    /\ (sym.sdata = sym.edata /\ count["init_data"] >= 1) => mem = memCopy
    /\ (MemInitDone /\ Bss \cap Data = {}) => \A a \in Bss : mem[a] = 0
    /\ (MemInitDone /\ sym = ScenarioLayout /\ DOMAIN mem = 0 .. 5) =>
           Dump(mem, 0, 4) = << 0, 0, 0, 0, 170, 187, 204, 221 >>

C17_Witness ==
    /\ MemInitDone
    /\ sym = ScenarioLayout /\ DOMAIN mem = 0 .. 5
    /\ \A a \in 0 .. 3 : mem0[a] = 65535
    /\ Dump(mem, 0, 4) = << 0, 0, 0, 0, 170, 187, 204, 221 >>

\* C18: the DEFAULT_HANDLER of default_handler!(f) calls f once per
\* dispatch without touching GIE, and when f returns the handler returns
\* to the interrupted code: its frame is popped, the saved status register
\* is restored and the main thread is where it was, in main or in the
\* final loop.
C18_OverrideReturnsToInterrupted ==
    /\ [](\A i \in 1 .. Len(isr) :
            isr[i].h = "override" =>
                /\ isr[i].calls <= 1
                /\ isr[i].at # "entry" => isr[i].calls = 1)
    /\ [][(isr # << >> /\ Top.h = "override" /\ Top.at = "entry"
             /\ isr' # isr)
            => (/\ gie' = gie
                /\ Len(isr') = Len(isr)
                /\ isr'[Len(isr')].at = "run"
                /\ isr'[Len(isr')].calls = 1)]_vars
    /\ [][(isr # << >> /\ Top.h = "override" /\ TopHandlerReturns)
            => (/\ isr' = SubSeq(isr, 1, Len(isr) - 1)
                /\ gie' = Top.sr
                /\ pc' = pc /\ phase' = phase
                /\ BootState' = BootState)]_vars

\* The part of C18 that the code keeps: f is called once per dispatch, the
\* override neither changes GIE nor loops, and it is left only by the
\* return of f or by a panic inside f.
C18_CallsOnce ==
    /\ [](\A i \in 1 .. Len(isr) :
            isr[i].h = "override" =>
                /\ isr[i].calls <= 1
                /\ isr[i].at # "entry" => isr[i].calls = 1)
    /\ [][(isr # << >> /\ Top.h = "override" /\ Top.at = "entry"
             /\ isr' # isr)
            => (/\ gie' = gie
                /\ Len(isr') = Len(isr)
                /\ isr'[Len(isr')].at = "run"
                /\ isr'[Len(isr')].calls = 1)]_vars

\* The override has returned from the vector itself: control is lost with
\* the main thread interrupted in main or in the final loop.
C18_Lost ==
    /\ isr # << >>
    /\ Top.h = "override" /\ Top.at = "wild" /\ Top.calls = 1
    /\ pc \in {"main", "loop"}

====
